---- MODULE Spec2Model ----
(***************************************************************************)
(* AzadLibrary/iodata.py and AzadLibrary/constants.py: the I/O value type  *)
(* system (type registry, checkDataType, checkDataCompatibility,           *)
(* guessDataType, compareAnswers, checkPrecision) and the Primitive Data   *)
(* Protocol (sendingPrimitiveDataProtocol, receiveByPrimitiveDataProtocol).*)
(*                                                                         *)
(* A Python value is a pair <<kind, contents>>: the name of its native     *)
(* type and its contents.  Integers are anchor + offset (anchors 0,        *)
(* +-2^31, +-2^63), so that the 32/64-bit range tests are decided exactly; *)
(* reals are decimal numbers m * 10^e with exact arithmetic, plus inf,     *)
(* -inf and nan.                                                           *)
(***************************************************************************)
EXTENDS Integers, Sequences, FiniteSets, TLC

VARIABLES
    stream,     \* the items written to the channel, in order
    pos,        \* the receiving iterator: how many items it has consumed
    phase,      \* "send": the stream is being produced; "recv": it is being read
    sent,       \* log of sendingPrimitiveDataProtocol calls: value and extent
    recv,       \* log of receiveByPrimitiveDataProtocol calls: outcome and extent
    call,       \* the last call of a validation / comparison function
    ret         \* what that call returned or raised

vars == <<stream, pos, phase, sent, recv, call, ret>>

----------------------------------------------------------------------------
(* Bounds of the model *)

MaxLen == 2         \* longest text / byte block / list / set / mapping that is sent
MaxItems == 6       \* longest stream
MaxOps == 2         \* most values / raw items written to one stream
MaxRecv == 2        \* most receive calls on one stream
MaxSeq == 2         \* longest list given to a validation function
MaxAnswers == 3     \* most answers given to compareAnswers

----------------------------------------------------------------------------
(* Python values *)

PyInt(a, o) == <<"int", [a |-> a, o |-> o]>>
I(n) == PyInt(0, n)
PyBool(b) == <<"bool", b>>
PyFloat(m, e) == <<"float", [fin |-> TRUE, m |-> m, e |-> e]>>
PyInf(sign) == <<"float", [fin |-> FALSE, m |-> sign, e |-> 0]>>
PyNaN == PyInf(0)
PyDecimal(m, e) == <<"Decimal", [fin |-> TRUE, m |-> m, e |-> e]>>
PyNone == <<"NoneType", 0>>
PyStr(s) == <<"str", s>>
PyBytes(s) == <<"bytes", s>>
PyByteArray(s) == <<"bytearray", s>>
PyList(s) == <<"list", s>>
PyTuple(s) == <<"tuple", s>>
PySet(s) == <<"set", s>>
PyFrozenSet(s) == <<"frozenset", s>>
PyDict(s) == <<"dict", s>>
PyComplex == <<"complex", 0>>
PyType(name) == <<"type", name>>

\* isinstance(x, kinds): bool is a subclass of int
IsInstance(x, kinds) == x[1] \in kinds \/ (x[1] = "bool" /\ "int" \in kinds)

Range(s) == {s[i] : i \in DOMAIN s}

RECURSIVE Concat(_)
Concat(ss) == IF ss = <<>> THEN <<>> ELSE Head(ss) \o Concat(Tail(ss))

----------------------------------------------------------------------------
(* Numbers.  A real is [fin, m, e]: the decimal m * 10^e when fin, else    *)
(* +inf (m = 1), -inf (m = -1) or nan (m = 0).  Arithmetic on finite reals *)
(* is exact (the rounding of binary floating point is not modelled).       *)

Sign(n) == IF n > 0 THEN 1 ELSE IF n < 0 THEN -1 ELSE 0
Abs(n) == IF n < 0 THEN -n ELSE n
Min(a, b) == IF a <= b THEN a ELSE b

RECURSIVE Pow10(_)
Pow10(n) == IF n <= 0 THEN 1 ELSE 10 * Pow10(n - 1)

Dec(m, e) == [fin |-> TRUE, m |-> m, e |-> e]
DecZero == Dec(0, 0)
IsNaN(x) == ~x.fin /\ x.m = 0
IsInf(x) == ~x.fin /\ x.m # 0

\* sign of m1 * 10^g - m2 for g >= 0, without leaving 32 bits
CmpScaled(m1, g, m2) ==
    IF m1 = 0 THEN Sign(0 - m2)
    ELSE IF g > 9 THEN Sign(m1)
    ELSE IF Abs(m1) > 2147483647 \div Pow10(g) THEN Sign(m1)
    ELSE LET s == m1 * Pow10(g) IN IF s < m2 THEN -1 ELSE IF s > m2 THEN 1 ELSE 0

\* sign of x - y for finite x, y
DecCmp(x, y) ==
    IF x.e >= y.e THEN CmpScaled(x.m, x.e - y.e, y.m)
    ELSE 0 - CmpScaled(y.m, y.e - x.e, x.m)

\* x <= y on floats: false as soon as one side is nan
FLe(x, y) ==
    IF IsNaN(x) \/ IsNaN(y) THEN FALSE
    ELSE IF ~x.fin THEN (x.m = -1 \/ (~y.fin /\ y.m = 1))
    ELSE IF ~y.fin THEN y.m = 1
    ELSE DecCmp(x, y) <= 0

\* abs(x)
FAbs(x) == IF x.fin THEN Dec(Abs(x.m), x.e) ELSE [x EXCEPT !.m = Abs(x.m)]

\* x - y: inf - inf is nan
FSub(x, y) ==
    IF IsNaN(x) \/ IsNaN(y) THEN PyNaN[2]
    ELSE IF ~x.fin THEN (IF ~y.fin /\ y.m = x.m THEN PyNaN[2] ELSE x)
    ELSE IF ~y.fin THEN [y EXCEPT !.m = 0 - y.m]
    ELSE IF y.m = 0 THEN x
    ELSE IF x.m = 0 THEN Dec(0 - y.m, y.e)
    ELSE LET e == Min(x.e, y.e)
         IN  Dec(x.m * Pow10(x.e - e) - y.m * Pow10(y.e - e), e)

\* abs(d / a) <= p for a # 0: for finite d, a and p the quotient is compared
\* exactly, as |d| <= p * |a|
FAbsQuotientLe(d, a, p) ==
    IF IsNaN(d) \/ IsNaN(a) \/ IsNaN(p) THEN FALSE
    ELSE IF ~d.fin THEN (a.fin /\ ~p.fin /\ p.m = 1)
    ELSE IF ~a.fin THEN FLe(DecZero, p)
    ELSE IF ~p.fin THEN p.m = 1
    ELSE DecCmp(Dec(Abs(d.m), d.e), Dec(p.m * Abs(a.m), p.e + a.e)) <= 0

\* an int (anchor 0) or bool as a real
AsReal(x) ==
    IF x[1] = "bool" THEN Dec(IF x[2] THEN 1 ELSE 0, 0)
    ELSE IF x[1] = "int" THEN Dec(x[2].o, 0)
    ELSE x[2]

\* Integers: anchor a in -2..2 stands for 0, +-2^31, +-2^63
IntOf(x) == IF x[1] = "bool" THEN [a |-> 0, o |-> IF x[2] THEN 1 ELSE 0] ELSE x[2]
IntLe(x, y) == x.a < y.a \/ (x.a = y.a /\ x.o <= y.o)

\* == on Python values: numbers compare by value across int, bool and float
IsNumber(x) == x[1] \in {"int", "bool", "float"}
PyEq(x, y) ==
    IF IsNumber(x) /\ IsNumber(y)
    THEN IF x[1] # "float" /\ y[1] # "float" THEN IntOf(x) = IntOf(y)
         ELSE IF (x[1] # "float" /\ IntOf(x).a # 0) \/ (y[1] # "float" /\ IntOf(y).a # 0)
              THEN FALSE
         ELSE LET a == AsReal(x)  b == AsReal(y)
              IN  IF ~a.fin \/ ~b.fin THEN (a = b /\ ~IsNaN(a))
                  ELSE DecCmp(a, b) = 0
    ELSE x = y

----------------------------------------------------------------------------
(* The Primitive Data Protocol: sending *)

\* a head item: the dict {"type": ..., "len": ..., "id": ...}
Frame(type, len, id) == <<"frame", [type |-> type, len |-> len, id |-> id]>>

\* a mapping's entries as key, value, key, value, ...
RECURSIVE Flatten(_)
Flatten(pairs) ==
    IF pairs = <<>> THEN <<>> ELSE <<Head(pairs)[1], Head(pairs)[2]>> \o Flatten(Tail(pairs))

\* iterating a str gives its characters (strs of length 1), iterating bytes
\* or a bytearray gives ints
AtomicUnits(data) ==
    [i \in DOMAIN data[2] |-> IF data[1] = "str" THEN PyStr(<<data[2][i]>>) ELSE I(data[2][i])]

\* len(data), as put in the head's "len"
HeadLenOffByOne(data) == I(Len(data[2]) + 1)
HeadLen(data) == I(Len(data[2]))

\* the "type" of the head: dict, list (for list, tuple, set and frozenset) or
\* type(data) (for str, bytes and bytearray)
HeadType(data) ==
    IF data[1] \in {"list", "tuple", "set", "frozenset"} THEN PyType("list")
    ELSE PyType(data[1])

\* The generator's output: out is what it yields, ok is FALSE when it then
\* raises TypeError ("Invalid type") instead of finishing.
RECURSIVE sendingPrimitiveDataProtocol(_, _), SendEach(_)
SendEach(elements) ==
    IF elements = <<>> THEN [out |-> <<>>, ok |-> TRUE]
    ELSE LET first == sendingPrimitiveDataProtocol(Head(elements), PyNone)
         IN  IF ~first.ok THEN first
             ELSE LET rest == SendEach(Tail(elements))
                  IN  [out |-> first.out \o rest.out, ok |-> rest.ok]

sendingPrimitiveDataProtocol(data, identifier) ==
    IF data[1] = "dict"
    THEN LET body == SendEach(Flatten(data[2]))
         IN  [out |-> <<Frame(HeadType(data), HeadLen(data), identifier)>> \o body.out,
              ok |-> body.ok]
    ELSE IF data[1] \in {"list", "tuple", "set", "frozenset"}
    THEN LET body == SendEach(data[2])
         IN  [out |-> <<Frame(HeadType(data), HeadLen(data), identifier)>> \o body.out,
              ok |-> body.ok]
    ELSE IF data[1] \in {"str", "bytes", "bytearray"}
    THEN [out |-> <<Frame(HeadType(data), HeadLen(data), identifier)>> \o AtomicUnits(data),
          ok |-> TRUE]
    ELSE IF IsInstance(data, {"int", "float", "bool"}) \/ data = PyNone
    THEN [out |-> <<data>>, ok |-> TRUE]
    ELSE [out |-> <<>>, ok |-> FALSE]

----------------------------------------------------------------------------
(* The Primitive Data Protocol: receiving.  A call on the iterator at      *)
(* position p (p items consumed) of the item sequence s gives              *)
(* [st, val, pos]: st is "ok" or the exception raised, val the value       *)
(* returned, pos the iterator's position afterwards.                       *)

Returned(val, p) == [st |-> "ok", val |-> val, pos |-> p]
Raised(exc, p) == [st |-> exc, val |-> PyNone, pos |-> p]

\* hash(x) succeeds
RECURSIVE Hashable(_)
Hashable(x) ==
    IF x[1] \in {"list", "dict", "set", "bytearray"} THEN FALSE
    ELSE IF x[1] = "tuple" THEN \A i \in DOMAIN x[2] : Hashable(x[2][i])
    ELSE TRUE

\* data[key] = value on the entries of a dict, in insertion order
RECURSIVE SetItem(_, _, _)
SetItem(pairs, key, value) ==
    IF pairs = <<>> THEN << <<key, value>> >>
    ELSE IF PyEq(Head(pairs)[1], key) THEN << <<Head(pairs)[1], value>> >> \o Tail(pairs)
    ELSE <<Head(pairs)>> \o SetItem(Tail(pairs), key, value)

\* adding an element to a set
SetAdd(elements, x) ==
    IF \E i \in DOMAIN elements : PyEq(elements[i], x) THEN elements
    ELSE Append(elements, x)

\* range(length) for an int (or bool) length
RangeLen(length) == IF length[1] = "bool" THEN (IF length[2] THEN 1 ELSE 0) ELSE length[2].o

\* the next n items from position p, as far as the stream goes
Taken(s, p, n) == SubSeq(s, p + 1, Min(p + n, Len(s)))

RECURSIVE receiveFrom(_, _), ReceiveList(_, _, _, _), ReceiveListSoFar(_, _, _, _),
          ReceiveDict(_, _, _, _),
          ReceiveDictValueFirst(_, _, _, _), ReceiveSet(_, _, _, _),
          ReceiveByteArray(_, _, _, _)

\* [receiveByPrimitiveDataProtocol(iterator) for i in range(n)]
ReceiveListSoFar(s, p, n, acc) ==
    IF n = 0 THEN Returned(PyList(acc), p)
    ELSE LET r == receiveFrom(s, p)
         IN  IF r.st = "StopIteration" THEN Returned(PyList(acc), r.pos)
             ELSE IF r.st # "ok" THEN r
             ELSE ReceiveListSoFar(s, r.pos, n - 1, Append(acc, r.val))

ReceiveList(s, p, n, acc) ==
    IF n = 0 THEN Returned(PyList(acc), p)
    ELSE LET r == receiveFrom(s, p)
         IN  IF r.st # "ok" THEN r
             ELSE ReceiveList(s, r.pos, n - 1, Append(acc, r.val))

\* the for loop that reads key, value and stores data[key] = value
ReceiveDictValueFirst(s, p, n, acc) ==
    IF n = 0 THEN Returned(PyDict(acc), p)
    ELSE LET value == receiveFrom(s, p)
         IN  IF value.st # "ok" THEN value
             ELSE LET key == receiveFrom(s, value.pos)
                  IN  IF key.st # "ok" THEN key
                      ELSE IF ~Hashable(key.val) THEN Raised("TypeError", key.pos)
                      ELSE ReceiveDictValueFirst(s, key.pos, n - 1,
                                                 SetItem(acc, key.val, value.val))

ReceiveDict(s, p, n, acc) ==
    IF n = 0 THEN Returned(PyDict(acc), p)
    ELSE LET key == receiveFrom(s, p)
         IN  IF key.st # "ok" THEN key
             ELSE LET value == receiveFrom(s, key.pos)
                  IN  IF value.st # "ok" THEN value
                      ELSE IF ~Hashable(key.val) THEN Raised("TypeError", value.pos)
                      ELSE ReceiveDict(s, value.pos, n - 1, SetItem(acc, key.val, value.val))

\* varType(receiveByPrimitiveDataProtocol(iterator) for i in range(n)): inside
\* the generator expression a StopIteration becomes a RuntimeError
ReceiveSet(s, p, n, acc) ==
    IF n = 0 THEN Returned(acc, p)
    ELSE LET r == receiveFrom(s, p)
         IN  IF r.st = "StopIteration" THEN Raised("RuntimeError", r.pos)
             ELSE IF r.st # "ok" THEN r
             ELSE IF ~Hashable(r.val) THEN Raised("TypeError", r.pos)
             ELSE ReceiveSet(s, r.pos, n - 1, SetAdd(acc, r.val))

\* bytearray(next(iterator) for i in range(n)): each item must be an int in
\* range(0, 256)
ReceiveByteArray(s, p, n, acc) ==
    IF n = 0 THEN Returned(PyByteArray(acc), p)
    ELSE IF p >= Len(s) THEN Raised("RuntimeError", p)
    ELSE LET item == s[p + 1]
         IN  IF ~IsInstance(item, {"int"}) THEN Raised("TypeError", p + 1)
             ELSE IF ~(IntOf(item).a = 0 /\ IntOf(item).o \in 0..255)
             THEN Raised("ValueError", p + 1)
             ELSE ReceiveByteArray(s, p + 1, n - 1, Append(acc, IntOf(item).o))

\* "".join(next(iterator) for i in range(n)): join first draws the n items,
\* then wants each to be a str
ReceiveStr(s, p, n) ==
    IF p + n > Len(s) THEN Raised("RuntimeError", Len(s))
    ELSE LET items == Taken(s, p, n)
         IN  IF \E i \in DOMAIN items : items[i][1] # "str" THEN Raised("TypeError", p + n)
             ELSE Returned(PyStr(Concat([i \in DOMAIN items |-> items[i][2]])), p + n)

\* b''.join(next(iterator) for i in range(n)): join first draws the n items,
\* then wants each to be bytes-like; what iterating bytes gave were ints
ReceiveBytes(s, p, n) ==
    IF p + n > Len(s) THEN Raised("RuntimeError", Len(s))
    ELSE LET items == Taken(s, p, n)
         IN  IF \E i \in DOMAIN items : items[i][1] \notin {"bytes", "bytearray"}
             THEN Raised("TypeError", p + n)
             ELSE Returned(PyBytes(Concat([i \in DOMAIN items |-> items[i][2]])), p + n)

\* receiveByPrimitiveDataProtocol(iterator), checkEnd false
receiveFrom(s, p) ==
    IF p >= Len(s) THEN Raised("StopIteration", p)
    ELSE
    LET head == s[p + 1] IN
    IF head[1] = "frame"
    THEN LET varType == head[2].type
             length == head[2].len
         IN  IF varType[1] # "type" THEN Raised("TypeError", p + 1)
             ELSE IF ~IsInstance(length, {"int"}) THEN Raised("TypeError", p + 1)
             ELSE IF ~IntLe([a |-> 0, o |-> 0], IntOf(length)) THEN Raised("ValueError", p + 1)
             ELSE IF varType[2] = "dict" THEN ReceiveDict(s, p + 1, RangeLen(length), <<>>)
             ELSE IF varType[2] \in {"list", "tuple"}
                  THEN ReceiveList(s, p + 1, RangeLen(length), <<>>)
             ELSE IF varType[2] \in {"set", "frozenset"}
                  THEN LET r == ReceiveSet(s, p + 1, RangeLen(length), <<>>)
                       IN  IF r.st = "ok" THEN Returned(<<varType[2], r.val>>, r.pos)
                           ELSE r
             ELSE IF varType[2] = "str" THEN ReceiveStr(s, p + 1, RangeLen(length))
             ELSE IF varType[2] = "bytes" THEN ReceiveBytes(s, p + 1, RangeLen(length))
             ELSE IF varType[2] = "bytearray"
                  THEN ReceiveByteArray(s, p + 1, RangeLen(length), <<>>)
             ELSE Raised("TypeError", p + 1)
    ELSE IF IsInstance(head, {"int", "float", "bool"}) \/ head = PyNone
    THEN Returned(head, p + 1)
    ELSE Raised("TypeError", p + 1)

\* receiveByPrimitiveDataProtocol(iterable, checkEnd)
receiveIgnoringEnd(s, p, checkEnd) == receiveFrom(s, p)

receiveByPrimitiveDataProtocol(s, p, checkEnd) ==
    IF checkEnd
    THEN LET result == receiveFrom(s, p)
         IN  IF result.st # "ok" THEN result
             ELSE IF result.pos >= Len(s) THEN result
             ELSE Raised("Exception", result.pos + 1)
    ELSE receiveFrom(s, p)

----------------------------------------------------------------------------
(* The type registry (constants.py) *)

\* the deepest nesting guessDataType tries
MaxParameterDimensionAllowed == 2

\* the keys of IODataTypesInfo, in insertion order
TypeNamesLongLongFirst ==
    <<"long long", "int", "float", "double", "str", "bool",
      "integer", "long", "long long int", "real", "string", "boolean">>
TypeNames ==
    <<"int", "long long", "float", "double", "str", "bool",
      "integer", "long", "long long int", "real", "string", "boolean">>

IsRegistered(name) == \E n \in DOMAIN TypeNames : TypeNames[n] = name

\* the entry an alias shares
Canonical(name) ==
    CASE name = "integer" -> "int"
      [] name \in {"long", "long long int"} -> "long long"
      [] name = "real" -> "double"
      [] name = "string" -> "str"
      [] name = "boolean" -> "bool"
      [] OTHER -> name

\* IODataTypesInfo[name]["pytypes"]
PyTypes(name) ==
    CASE Canonical(name) \in {"int", "long long"} -> {"int"}
      [] Canonical(name) \in {"float", "double"} -> {"float", "Decimal", "Fraction"}
      [] Canonical(name) = "str" -> {"str"}
      [] Canonical(name) = "bool" -> {"bool", "int"}

\* lo <= abs(x) <= hi
MagnitudeWithin(x, lo, hi) == FLe(lo, FAbs(x)) /\ FLe(FAbs(x), hi)

\* IODataTypesInfo[name]["constraint"](x), for x of an accepted kind.  The
\* reals of the model carry at most nine significant digits; for those the
\* bounds 3.402823466e38, float_info.min and float_info.max decide as their
\* nine-digit roundings below do.
ConstraintUpToPowerOfTwo(name, x) ==
    CASE Canonical(name) = "int" ->
            IntLe([a |-> -1, o |-> 0], IntOf(x)) /\ IntLe(IntOf(x), [a |-> 1, o |-> 0])
      [] Canonical(name) = "long long" ->
            IntLe([a |-> -2, o |-> 0], IntOf(x)) /\ IntLe(IntOf(x), [a |-> 2, o |-> 0])
      [] Canonical(name) = "float" ->
            MagnitudeWithin(x[2], Dec(1175494351, -47), Dec(340282346, 30))
      [] Canonical(name) = "double" ->
            MagnitudeWithin(x[2], Dec(222507386, -316), Dec(179769313, 300))
      [] Canonical(name) = "str" -> \A n \in DOMAIN x[2] : x[2][n] < 128
      [] Canonical(name) = "bool" -> x[1] = "bool" \/ IntOf(x) \in {[a |-> 0, o |-> 0], [a |-> 0, o |-> 1]}

Constraint(name, x) ==
    CASE Canonical(name) = "int" ->
            IntLe([a |-> -1, o |-> 0], IntOf(x)) /\ IntLe(IntOf(x), [a |-> 1, o |-> -1])
      [] Canonical(name) = "long long" ->
            IntLe([a |-> -2, o |-> 0], IntOf(x)) /\ IntLe(IntOf(x), [a |-> 2, o |-> -1])
      [] Canonical(name) = "float" ->
            MagnitudeWithin(x[2], Dec(1175494351, -47), Dec(340282346, 30))
      [] Canonical(name) = "double" ->
            MagnitudeWithin(x[2], Dec(222507386, -316), Dec(179769313, 300))
      [] Canonical(name) = "str" -> \A n \in DOMAIN x[2] : x[2][n] < 128
      [] Canonical(name) = "bool" -> x[1] = "bool" \/ IntOf(x) \in {[a |-> 0, o |-> 0], [a |-> 0, o |-> 1]}

\* DefaultTypeStrings: the type objects that have a type string
DefaultTypeString(type) ==
    CASE type = "int" -> "int"
      [] type \in {"float", "Decimal", "Fraction"} -> "float"
      [] type = "bool" -> "bool"
      [] type = "str" -> "str"
HasDefaultTypeString(type) == type \in {"int", "float", "Decimal", "Fraction", "bool", "str"}

----------------------------------------------------------------------------
(* Validation and comparison (iodata.py).  A call gives [st, val]: st is   *)
(* "ok" or the exception raised, val the value returned.                   *)

Gives(val) == [st |-> "ok", val |-> val]
Raises(exc) == [st |-> exc, val |-> FALSE]

IsSequence(x) == x[1] \in {"list", "tuple"}

\* a type given by name: the str naming it
TypeName(name) == <<"name", name>>

\* DefaultFloatPrecision = 1e-3
DefaultFloatPrecision == Dec(1, -3)

checkPrecisionBothNeeded(a, b, precision) ==
    IF FLe(precision, DecZero) THEN Raises("ValueError")
    ELSE IF FLe(FAbs(a), Dec(1, -10)) THEN Gives(FLe(FAbs(FSub(a, b)), precision))
    ELSE Gives(FLe(FAbs(FSub(a, b)), precision) /\ FAbsQuotientLe(FSub(a, b), a, precision))

checkPrecision(a, b, precision) ==
    IF FLe(precision, DecZero) THEN Raises("ValueError")
    ELSE IF FLe(FAbs(a), Dec(1, -10)) THEN Gives(FLe(FAbs(FSub(a, b)), precision))
    ELSE Gives(FLe(FAbs(FSub(a, b)), precision) \/ FAbsQuotientLe(FSub(a, b), a, precision))

RECURSIVE checkDataCompatibility(_, _), CompatibleFrom(_, _, _)

\* the loop over the elements: the first that is not compatible returns
\* False, the first that raises ends the call
CompatibleFrom(elements, n, targetType) ==
    IF n > Len(elements) THEN Gives(TRUE)
    ELSE LET r == checkDataCompatibility(elements[n], targetType)
         IN  IF r.st # "ok" THEN r
             ELSE IF ~r.val THEN Gives(FALSE)
             ELSE CompatibleFrom(elements, n + 1, targetType)

checkDataCompatibility(data, targetType) ==
    IF IsSequence(data) THEN CompatibleFrom(data[2], 1, targetType)
    ELSE IF targetType[1] = "type" /\ ~HasDefaultTypeString(targetType[2]) THEN Raises("KeyError")
    ELSE IF targetType[1] \notin {"type", "name"} THEN Raises("TypeError")
    ELSE LET name == IF targetType[1] = "type" THEN DefaultTypeString(targetType[2])
                     ELSE targetType[2]
         IN  IF ~IsRegistered(name) THEN Raises("ValueError")
             ELSE IF ~IsInstance(data, PyTypes(name)) THEN Raises("TypeError")
             ELSE Gives(Constraint(name, data))

\* checkDataType with the accepted kinds already looked up
RECURSIVE HasTypeAndDimension(_, _, _), HasTypeAndDimensionAtFirst(_, _, _)
HasTypeAndDimensionAtFirst(data, kinds, dimension) ==
    IF dimension = 0 THEN IsInstance(data, kinds)
    ELSE IF ~IsSequence(data) THEN FALSE
    ELSE data[2] = <<>> \/ HasTypeAndDimensionAtFirst(data[2][1], kinds, dimension - 1)

HasTypeAndDimension(data, kinds, dimension) ==
    IF dimension = 0 THEN IsInstance(data, kinds)
    ELSE IF ~IsSequence(data) THEN FALSE
    ELSE \A n \in DOMAIN data[2] : HasTypeAndDimension(data[2][n], kinds, dimension - 1)

checkDataType(data, variableType, dimension) ==
    IF ~IsRegistered(variableType) THEN Raises("KeyError")
    ELSE Gives(HasTypeAndDimension(data, PyTypes(variableType), dimension))


\* range(MaxParameterDimensionAllowed + 1) if dimension is None else [dimension]
Dimensions(dimension) ==
    IF dimension = PyNone THEN [n \in 1..(MaxParameterDimensionAllowed + 1) |-> n - 1]
    ELSE <<dimension[2].o>>

\* the two nested loops, standing at dimension dims[di] and type TypeNames[ti]
RECURSIVE GuessFrom(_, _, _, _, _)
GuessFrom(data, dims, di, ti, validateConstraints) ==
    IF di > Len(dims) THEN Raises("FailedDataValidation")
    ELSE IF ti > Len(TypeNames) THEN GuessFrom(data, dims, di + 1, 1, validateConstraints)
    ELSE LET varType == TypeNames[ti]
             typed == checkDataType(data, varType, dims[di])
         IN  IF typed.st # "ok" THEN typed
             ELSE IF ~typed.val THEN GuessFrom(data, dims, di, ti + 1, validateConstraints)
             ELSE IF ~validateConstraints THEN Gives(<<varType, dims[di]>>)
             ELSE LET fits == checkDataCompatibility(data, TypeName(varType))
                  IN  IF fits.st # "ok" THEN fits
                      ELSE IF fits.val THEN Gives(<<varType, dims[di]>>)
                      ELSE GuessFrom(data, dims, di, ti + 1, validateConstraints)

guessDataTypeUnvalidated(data, dimension, validateConstraints) ==
    GuessFrom(data, Dimensions(dimension), 1, 1, FALSE)

guessDataType(data, dimension, validateConstraints) ==
    GuessFrom(data, Dimensions(dimension), 1, 1, validateConstraints)

\* lines 122-125: every answer is a list or tuple as long as the first
SameLengthSequencesOrLonger(answers) ==
    \A n \in DOMAIN answers :
        IsSequence(answers[n]) /\ Len(answers[1][2]) <= Len(answers[n][2])
SameLengthSequences(answers) ==
    \A n \in DOMAIN answers :
        IsSequence(answers[n]) /\ Len(answers[1][2]) = Len(answers[n][2])

\* lines 138-141: the loop over the other answers of a real first answer
RECURSIVE WithinPrecisionFrom(_, _, _)
WithinPrecisionFrom(answers, n, floatPrecision) ==
    IF n > Len(answers) THEN Gives(TRUE)
    ELSE LET r == checkPrecision(answers[1][2], answers[n][2], floatPrecision)
         IN  IF r.st # "ok" THEN r
             ELSE IF ~r.val THEN Gives(FALSE)
             ELSE WithinPrecisionFrom(answers, n + 1, floatPrecision)

\* lines 132-148: answers whose first is not a list or tuple
CompareScalarsRaisingOnMismatch(answers, floatPrecision) ==
    IF \E n \in 2..Len(answers) : ~IsInstance(answers[n], {answers[1][1]})
    THEN Raises("TypeError")
    ELSE IF answers[1][1] \in {"float", "Decimal", "Fraction"}
    THEN WithinPrecisionFrom(answers, 2, floatPrecision)
    ELSE IF IsInstance(answers[1], {"int", "bool", "str"})
    THEN Gives(\A n \in 2..Len(answers) : PyEq(answers[1], answers[n]))
    ELSE Raises("TypeError")

CompareScalars(answers, floatPrecision) ==
    IF \E n \in 2..Len(answers) : ~IsInstance(answers[n], {answers[1][1]}) THEN Gives(FALSE)
    ELSE IF answers[1][1] \in {"float", "Decimal", "Fraction"}
    THEN WithinPrecisionFrom(answers, 2, floatPrecision)
    ELSE IF IsInstance(answers[1], {"int", "bool", "str"})
    THEN Gives(\A n \in 2..Len(answers) : PyEq(answers[1], answers[n]))
    ELSE Raises("TypeError")

RECURSIVE compareAnswers(_, _), CompareElementsFrom(_, _)

\* lines 126-129: the loop over the indices; the recursive call is made
\* without floatPrecision, so it runs with the default
CompareElementsFrom(answers, i) ==
    IF i > Len(answers[1][2]) THEN Gives(TRUE)
    ELSE LET r == compareAnswers([n \in DOMAIN answers |-> answers[n][2][i]],
                                 DefaultFloatPrecision)
         IN  IF r.st # "ok" THEN r
             ELSE IF ~r.val THEN Gives(FALSE)
             ELSE CompareElementsFrom(answers, i + 1)

compareAnswers(answers, floatPrecision) ==
    IF Len(answers) < 2 THEN Raises("ValueError")
    ELSE IF IsSequence(answers[1])
    THEN IF ~SameLengthSequences(answers) THEN Gives(FALSE)
         ELSE CompareElementsFrom(answers, 1)
    ELSE CompareScalars(answers, floatPrecision)

----------------------------------------------------------------------------
(* The channel: a producer writes what sendingPrimitiveDataProtocol yields *)
(* (or any item of its own), then a consumer calls                         *)
(* receiveByPrimitiveDataProtocol on one iterator over what was written.   *)

Scalars == {I(1), PyFloat(35, -1), PyInf(1), PyBool(TRUE), PyNone}

TextOf(n) == PyStr([i \in 1..n |-> 103 + i])                 \* "", "h", "hi", ...
BytesOf(n) == PyBytes([i \in 1..n |-> 96 + i])               \* b"", b"a", b"ab", ...
ByteArrayOf(n) == PyByteArray([i \in 1..n |-> 96 + i])
ListOf(n) == PyList([i \in 1..n |-> I(i)])                   \* [], [1], [1, 2], ...
SetOf(n) == PySet([i \in 1..n |-> I(n + 1 - i)])             \* iterated as n, ..., 1
DictOf(n) == PyDict([i \in 1..n |-> <<I(i), I(10 * i)>>])    \* {}, {1: 10}, {1: 10, 2: 20}

Sized == UNION {{TextOf(n), BytesOf(n), ByteArrayOf(n), ListOf(n), SetOf(n), DictOf(n)} :
                n \in 0..MaxLen}

Nested == {PyList(<<ListOf(1), ListOf(0)>>),
           PyList(<<TextOf(1), PyFloat(35, -1)>>),
           PyTuple(<<I(1), I(2)>>),
           PyFrozenSet(<<I(2)>>),
           PyDict(<< <<PyTuple(<<I(1)>>), I(3)>> >>),
           PyDict(<< <<TextOf(1), ListOf(1)>> >>),
           PyList(<<I(1), PyComplex>>),
           PyComplex}

SendValues == Scalars \cup Sized \cup Nested
\* values also sent with an identifier, and the identifiers given
TaggedValues == {I(1), TextOf(1), ListOf(1), DictOf(1)}
Identifiers == {I(5)}

\* items a peer may write that no encoder call produced
RawItems == {I(7), PyStr(<<104>>),
             Frame(PyType("list"), I(1), PyNone),
             Frame(PyType("dict"), I(1), PyNone),
             Frame(PyType("set"), I(2), PyNone),
             Frame(PyType("str"), I(1), PyNone),
             Frame(PyType("bytes"), I(2), PyNone),
             Frame(PyType("bytearray"), I(1), PyNone),
             Frame(PyType("int"), I(0), PyNone),
             Frame(PyStr(<<104>>), I(0), PyNone),
             Frame(PyType("list"), PyNone, PyNone),
             Frame(PyType("list"), I(-1), PyNone)}

Idle == [op |-> "idle"]

InitCodec ==
    /\ stream = <<>>
    /\ pos = 0
    /\ phase = "send"
    /\ sent = <<>>
    /\ recv = <<>>
    /\ call = Idle
    /\ ret = Idle

\* the stream and the log after list(sendingPrimitiveDataProtocol(data,
\* identifier)) is written: what was yielded before a TypeError is written too
Written(data, identifier) ==
    LET r == sendingPrimitiveDataProtocol(data, identifier)
    IN  [stream |-> stream \o r.out,
         sent |-> Append(sent, [data |-> data, ok |-> r.ok, raw |-> FALSE,
                                from |-> Len(stream), to |-> Len(stream) + Len(r.out)])]

\* sendingPrimitiveDataProtocol(data): identifier is None by default
Send(data) ==
    /\ phase = "send"
    /\ Len(sent) < MaxOps
    /\ Len(Written(data, PyNone).stream) <= MaxItems
    /\ stream' = Written(data, PyNone).stream
    /\ sent' = Written(data, PyNone).sent
    /\ UNCHANGED <<pos, phase, recv, call, ret>>

\* sendingPrimitiveDataProtocol(data, identifier)
SendWithId(data, identifier) ==
    /\ phase = "send"
    /\ Len(sent) < MaxOps
    /\ Len(Written(data, identifier).stream) <= MaxItems
    /\ stream' = Written(data, identifier).stream
    /\ sent' = Written(data, identifier).sent
    /\ UNCHANGED <<pos, phase, recv, call, ret>>

\* the producer writes one item of its own
Put(item) ==
    /\ phase = "send"
    /\ Len(sent) < MaxOps
    /\ Len(stream) + 1 <= MaxItems
    /\ stream' = Append(stream, item)
    /\ sent' = Append(sent, [data |-> item, ok |-> TRUE, raw |-> TRUE,
                             from |-> Len(stream), to |-> Len(stream) + 1])
    /\ UNCHANGED <<pos, phase, recv, call, ret>>

\* the consumer takes iter(stream)
Open ==
    /\ phase = "send"
    /\ phase' = "recv"
    /\ UNCHANGED <<stream, pos, sent, recv, call, ret>>

\* one call of receiveByPrimitiveDataProtocol(iterator, checkEnd)
Receive(checkEnd) ==
    /\ phase = "recv"
    /\ Len(recv) < MaxRecv
    /\ LET r == receiveByPrimitiveDataProtocol(stream, pos, checkEnd)
       IN  /\ pos' = r.pos
           /\ recv' = Append(recv, [checkEnd |-> checkEnd, from |-> pos, to |-> r.pos,
                                    st |-> r.st, val |-> r.val])
    /\ UNCHANGED <<stream, phase, sent, call, ret>>

NextCodec ==
    \/ \E data \in SendValues : Send(data)
    \/ \E data \in TaggedValues, identifier \in Identifiers : SendWithId(data, identifier)
    \/ \E item \in RawItems : Put(item)
    \/ Open
    \/ \E checkEnd \in BOOLEAN : Receive(checkEnd)

SpecCodec == InitCodec /\ [][NextCodec]_vars

----------------------------------------------------------------------------
(* Claims about the codec, checked under SpecCodec *)

\* receive call i began at the head of the encoding of sent value j
StartsAt(i, j) ==
    /\ ~sent[j].raw
    /\ sent[j].ok
    /\ sent[j].to > sent[j].from
    /\ recv[i].from = sent[j].from

IsScalarValue(x) == x[1] \in {"int", "float", "bool", "str"}

\* the kinds C1 names: integer, real, text, list / set of scalars, mapping
\* from scalars to scalars
InRoundTripClaim(x) ==
    \/ x[1] \in {"int", "float", "str"}
    \/ x[1] \in {"list", "set"} /\ \A n \in DOMAIN x[2] : IsScalarValue(x[2][n])
    \/ x[1] = "dict" /\ \A n \in DOMAIN x[2] : IsScalarValue(x[2][n][1]) /\ IsScalarValue(x[2][n][2])

\* C1: decoding the stream that encodes X returns a value equal to X: the same
\* value (kind and contents) for an integer, a real, a text, a list of scalars
\* and a mapping of scalars; for a set of scalars, a collection with exactly
\* the members of X, each once.
C1_RoundTrip ==
    \A i \in DOMAIN recv : \A j \in DOMAIN sent :
        (/\ StartsAt(i, j)
         /\ InRoundTripClaim(sent[j].data)
         /\ (recv[i].checkEnd => sent[j].to = Len(stream)))
        => /\ recv[i].st = "ok"
           /\ IF sent[j].data[1] = "set"
              THEN /\ Range(recv[i].val[2]) = Range(sent[j].data[2])
                   /\ Len(recv[i].val[2]) = Len(sent[j].data[2])
              ELSE recv[i].val = sent[j].data

C1_Witness ==
    \E i \in DOMAIN recv : \E j \in DOMAIN sent :
        /\ StartsAt(i, j)
        /\ sent[j].data = DictOf(2)
        /\ recv[i].st = "ok"
        /\ \E i2 \in DOMAIN recv : \E j2 \in DOMAIN sent :
               StartsAt(i2, j2) /\ sent[j2].data[1] = "set" /\ recv[i2].st = "ok"

\* the values that get a head, in the order the encoder visits them
RECURSIVE HeadedValues(_)
HeadedValues(x) ==
    IF x[1] = "dict"
    THEN <<x>> \o Concat([n \in DOMAIN Flatten(x[2]) |-> HeadedValues(Flatten(x[2])[n])])
    ELSE IF x[1] \in {"list", "tuple", "set", "frozenset"}
    THEN <<x>> \o Concat([n \in DOMAIN x[2] |-> HeadedValues(x[2][n])])
    ELSE IF x[1] \in {"str", "bytes", "bytearray"} THEN <<x>>
    ELSE <<>>

\* the positions of the heads in s, in order
RECURSIVE HeadPositions(_, _)
HeadPositions(s, n) ==
    IF n > Len(s) THEN <<>>
    ELSE (IF s[n][1] = "frame" THEN <<n>> ELSE <<>>) \o HeadPositions(s, n + 1)

\* the number of child elements the decoder built from a head: entries of a
\* mapping, elements of a sequence, units of a text or byte block
ChildCount(val) == Len(val[2])

\* C2: in the stream of every completed encoder call, every head (of a
\* mapping, a sequence, a text, a byte string or a byte buffer, at any depth)
\* declares as 'len' the number of child elements (entries, for a mapping)
\* that the encoder wrote right after it, and the decoder started on that
\* head reads nothing past them and, when it returns, has built exactly
\* 'len' children from exactly those items.
C2_FrameLen ==
    \A j \in DOMAIN sent :
        (~sent[j].raw /\ sent[j].ok) =>
            LET heads == HeadedValues(sent[j].data)
                at == HeadPositions(SubSeq(stream, 1, sent[j].to), sent[j].from + 1)
            IN  /\ Len(at) = Len(heads)
                /\ \A n \in DOMAIN at :
                       LET head == stream[at[n]]
                           extent == Len(sendingPrimitiveDataProtocol(heads[n], PyNone).out)
                           r == receiveFrom(stream, at[n] - 1)
                       IN  /\ head[2].len = I(Len(heads[n][2]))
                           /\ at[n] - 1 + extent <= sent[j].to
                           /\ r.pos <= at[n] - 1 + extent
                           /\ r.st = "ok" => /\ r.pos = at[n] - 1 + extent
                                             /\ ChildCount(r.val) = head[2].len[2].o

C2_Witness ==
    \E j \in DOMAIN sent : \E i \in DOMAIN recv :
        /\ StartsAt(i, j)
        /\ sent[j].data = PyDict(<< <<TextOf(1), ListOf(1)>> >>)
        /\ recv[i].st = "ok"
        /\ recv[i].to = sent[j].to

\* C3 as stated: a call (checkEnd false) on the iterator standing at the head
\* of encode(X), for any encodable X and whatever follows, returns the
\* decoded X and leaves the iterator exactly at the end of encode(X).
\* (list, tuple, set and frozenset all decode to a list.)
RECURSIVE DecodedForm(_)
DecodedForm(x) ==
    IF x[1] \in {"list", "tuple", "set", "frozenset"}
    THEN PyList([n \in DOMAIN x[2] |-> DecodedForm(x[2][n])])
    ELSE IF x[1] = "dict"
    THEN PyDict([n \in DOMAIN x[2] |-> <<DecodedForm(x[2][n][1]), DecodedForm(x[2][n][2])>>])
    ELSE x

C3_ExactConsumption ==
    \A i \in DOMAIN recv : \A j \in DOMAIN sent :
        (StartsAt(i, j) /\ ~recv[i].checkEnd)
        => /\ recv[i].to = sent[j].to
           /\ recv[i].st = "ok"
           /\ recv[i].val = DecodedForm(sent[j].data)

\* C4: with checkEnd the call first decodes one value as the call without
\* checkEnd does; if an item is left after it, it raises (Exception) and
\* returns nothing; if the stream ends there, it returns that value; if the
\* decoding raises, so does the call.
C4_CheckEnd ==
    \A i \in DOMAIN recv :
        recv[i].checkEnd =>
            LET plain == receiveFrom(stream, recv[i].from)
            IN  IF plain.st # "ok" THEN recv[i].st = plain.st
                ELSE IF plain.pos < Len(stream)
                THEN recv[i].st = "Exception" /\ recv[i].val = PyNone
                ELSE recv[i].st = "ok" /\ recv[i].val = plain.val /\ recv[i].to = plain.pos

C4_Witness ==
    /\ \E i \in DOMAIN recv : \E j \in DOMAIN sent :
           /\ StartsAt(i, j)
           /\ recv[i].checkEnd
           /\ sent[j].data[1] = "int"
           /\ sent[j].to < Len(stream)
           /\ recv[i].st = "Exception"
    /\ \E i \in DOMAIN recv : recv[i].checkEnd /\ recv[i].st = "ok"

----------------------------------------------------------------------------
(* Calls of the validation and comparison functions: each behaviour makes  *)
(* one call, on arguments drawn from the sets below.                       *)

SeqsUpTo(S, n) == UNION {[1..m -> S] : m \in 0..n}

ValueScalars ==
    {I(0), I(1), I(2),
     PyInt(1, -1), PyInt(1, 0), PyInt(-1, 0), PyInt(-1, -1),      \* 2^31-1, 2^31, -2^31, -2^31-1
     PyInt(2, -1), PyInt(2, 0), PyInt(-2, 0), PyInt(-2, -1),      \* 2^63-1, 2^63, -2^63, -2^63-1
     PyBool(TRUE), PyBool(FALSE),
     PyFloat(0, 0), PyFloat(35, -1), PyFloat(1, 39), PyFloat(1, -40), PyInf(1),
     PyDecimal(25, -1),
     TextOf(2), PyStr(<<233>>),
     PyNone}

Leaves == {I(1), PyInt(1, 0), PyInt(2, 0), PyFloat(35, -1), TextOf(1), PyBool(TRUE), PyNone}
Rows == {PyList(<<>>), PyList(<<I(1)>>), PyList(<<PyInt(1, 0)>>), PyList(<<TextOf(1)>>)}

CallValues ==
    ValueScalars
    \cup {PyList(s) : s \in SeqsUpTo(Leaves, MaxSeq)}
    \cup {PyList(s) : s \in SeqsUpTo(Rows, MaxSeq)}
    \cup {PyTuple(<<I(1), I(2)>>),
          PyList(<<PyList(<<PyList(<<I(1)>>)>>)>>),
          PyList(<<PyList(<<PyList(<<>>)>>)>>),
          PyList(<<I(1), PyList(<<I(1)>>)>>)}

TargetTypes ==
    {TypeName(TypeNames[n]) : n \in DOMAIN TypeNames}
    \cup {TypeName("foo"), PyType("int"), PyType("list"), I(5)}

GivenDimensions == {PyNone} \cup {I(n) : n \in 0..(MaxParameterDimensionAllowed + 1)}

TinyReals == {Dec(0, 0), Dec(5, -11), Dec(-5, -11), Dec(1, -10), Dec(2, -10)}
UnitReals == {Dec(0, 0), Dec(1, 0), Dec(-1, 0), Dec(15, -1), Dec(100, 0), Dec(10005, -2),
              Dec(10000005, -5), Dec(1015, -1)}
NonFinite == {PyInf(1)[2], PyInf(-1)[2], PyNaN[2]}
PrecisionPairs ==
    (TinyReals \X TinyReals) \cup (UnitReals \X UnitReals)
    \cup ((TinyReals \cup UnitReals \cup NonFinite) \X NonFinite)
    \cup (NonFinite \X (TinyReals \cup UnitReals))
Precisions == {Dec(-1, -3), Dec(0, 0), Dec(1, -11), Dec(5, -7), Dec(1, -3), Dec(1, 0)}

AnswerValues ==
    {I(1), I(2), PyBool(TRUE), PyStr(<<49>>), PyNone,
     PyFloat(1, 0), PyFloat(15, -1), PyInf(1),
     PyList(<<PyFloat(1, 0)>>), PyList(<<PyFloat(15, -1)>>),
     PyList(<<I(1), PyNone>>), PyList(<<I(2), PyNone>>), PyList(<<PyNone, I(1)>>),
     PyTuple(<<I(1), I(2)>>),
     PyList(<<ListOf(1), ListOf(2)>>), PyList(<<ListOf(1), ListOf(1)>>)}
    \cup {ListOf(n) : n \in 0..(MaxSeq + 1)}
AnswerPrecisions == {Dec(0, 0), Dec(1, -3), Dec(1, 0)}

InitCalls ==
    /\ stream = <<>>
    /\ pos = 0
    /\ phase = "send"
    /\ sent = <<>>
    /\ recv = <<>>
    /\ call = Idle
    /\ ret = Idle

CallCheckPrecision ==
    /\ call = Idle
    /\ \E ab \in PrecisionPairs, precision \in Precisions :
           /\ call' = [op |-> "checkPrecision", a |-> ab[1], b |-> ab[2],
                       precision |-> precision]
           /\ ret' = checkPrecision(ab[1], ab[2], precision)
    /\ UNCHANGED <<stream, pos, phase, sent, recv>>

CallCheckDataCompatibility ==
    /\ call = Idle
    /\ \E data \in CallValues, targetType \in TargetTypes :
           /\ call' = [op |-> "checkDataCompatibility", data |-> data,
                       targetType |-> targetType]
           /\ ret' = checkDataCompatibility(data, targetType)
    /\ UNCHANGED <<stream, pos, phase, sent, recv>>

CallCheckDataType ==
    /\ call = Idle
    /\ \E data \in CallValues, n \in DOMAIN TypeNames,
          dimension \in 0..(MaxParameterDimensionAllowed + 1) :
           /\ call' = [op |-> "checkDataType", data |-> data, variableType |-> TypeNames[n],
                       dimension |-> dimension]
           /\ ret' = checkDataType(data, TypeNames[n], dimension)
    /\ UNCHANGED <<stream, pos, phase, sent, recv>>

CallGuessDataType ==
    /\ call = Idle
    /\ \E data \in CallValues, dimension \in GivenDimensions, validateConstraints \in BOOLEAN :
           /\ call' = [op |-> "guessDataType", data |-> data, dimension |-> dimension,
                       validateConstraints |-> validateConstraints]
           /\ ret' = guessDataType(data, dimension, validateConstraints)
    /\ UNCHANGED <<stream, pos, phase, sent, recv>>

CallCompareAnswers ==
    /\ call = Idle
    /\ \E answers \in SeqsUpTo(AnswerValues, MaxAnswers), floatPrecision \in AnswerPrecisions :
           /\ call' = [op |-> "compareAnswers", answers |-> answers,
                       floatPrecision |-> floatPrecision]
           /\ ret' = compareAnswers(answers, floatPrecision)
    /\ UNCHANGED <<stream, pos, phase, sent, recv>>

NextCalls ==
    \/ CallCheckPrecision
    \/ CallCheckDataCompatibility
    \/ CallCheckDataType
    \/ CallGuessDataType
    \/ CallCompareAnswers

SpecCalls == InitCalls /\ [][NextCalls]_vars

----------------------------------------------------------------------------
(* Claims about guessDataType, checked under SpecCalls *)

\* the dimensions guessDataType searches: the given one, or 0..Max when None
SearchedDimensions(dimension) == Range(Dimensions(dimension))

\* the pair (TypeNames[n], d) passes checkDataType and, when constraints are
\* validated, checkDataCompatibility
Succeeds(data, n, d, validateConstraints) ==
    /\ checkDataType(data, TypeNames[n], d) = Gives(TRUE)
    /\ validateConstraints => checkDataCompatibility(data, TypeName(TypeNames[n])) = Gives(TRUE)

\* (n1, d1) is searched before (n2, d2): dimension-major, registry order within
SearchedBefore(n1, d1, n2, d2) == d1 < d2 \/ (d1 = d2 /\ n1 < n2)

\* C5: guessDataType(value, None, validateConstraints) returns the first pair
\* (typeName, d), dimensions ascending and registry names in declaration order
\* within a dimension, that passes checkDataType and (when validating)
\* checkDataCompatibility; so checkDataType holds of the returned pair, no
\* registered type matches at a smaller dimension, and an integer that fits
\* both "int" and "long long" is inferred as "int".
C5_FirstPairInOrder ==
    (call.op = "guessDataType" /\ call.dimension = PyNone) =>
        LET data == call.data
            validating == call.validateConstraints
            dims == SearchedDimensions(PyNone)
        IN  /\ (\E n \in DOMAIN TypeNames, d \in dims : Succeeds(data, n, d, validating))
                   => ret.st = "ok"
            /\ ret.st = "ok" =>
                   \E n \in DOMAIN TypeNames, d \in dims :
                       /\ ret.val = <<TypeNames[n], d>>
                       /\ Succeeds(data, n, d, validating)
                       /\ \A n1 \in DOMAIN TypeNames, d1 \in dims :
                              SearchedBefore(n1, d1, n, d) => ~Succeeds(data, n1, d1, validating)
                       /\ checkDataType(data, TypeNames[n], d) = Gives(TRUE)
                       /\ \A n1 \in DOMAIN TypeNames, d1 \in dims :
                              d1 < d => checkDataType(data, TypeNames[n1], d1) = Gives(FALSE)
            /\ (data[1] = "int" /\ Constraint("int", data) /\ Constraint("long long", data))
                   => ret = Gives(<<"int", 0>>)

\* 2^31 with constraints validated: "int" matches first but does not fit, so
\* the second name in registry order is returned
C5_Witness ==
    /\ call.op = "guessDataType"
    /\ call.dimension = PyNone
    /\ call.data = PyInt(1, 0)
    /\ call.validateConstraints
    /\ ret = Gives(<<"long long", 0>>)

\* C6: guessDataType raises FailedDataValidation exactly when no pair of its
\* search space (the given dimension, or 0..MaxParameterDimensionAllowed when
\* none is given, with every registry name) passes checkDataType and, when
\* constraints are validated, checkDataCompatibility; an integer outside the
\* signed 64-bit range with constraints validated gives this error.
C6_FailsIffNoPair ==
    call.op = "guessDataType" =>
        LET data == call.data
            validating == call.validateConstraints
        IN  /\ ret.st = "FailedDataValidation" <=>
                   ~\E n \in DOMAIN TypeNames, d \in SearchedDimensions(call.dimension) :
                        Succeeds(data, n, d, validating)
            /\ ret.st \in {"ok", "FailedDataValidation"}
            /\ (validating /\ data[1] = "int" /\ ~Constraint("long long", data))
                   => ret.st = "FailedDataValidation"

\* 2^63 with constraints validated
C6_Witness ==
    /\ call.op = "guessDataType"
    /\ call.data = PyInt(2, 0)
    /\ call.dimension = PyNone
    /\ call.validateConstraints
    /\ ret.st = "FailedDataValidation"

----------------------------------------------------------------------------
(* Claims about compareAnswers, checked under SpecCalls *)

\* at least two answers, none a list or tuple, the first an integer, boolean
\* or text, and some answer of another native kind than the first
ScalarsOfDifferentKinds(answers) ==
    /\ Len(answers) >= 2
    /\ \A n \in DOMAIN answers : ~IsSequence(answers[n])
    /\ answers[1][1] \in {"int", "bool", "str"}
    /\ \E n \in DOMAIN answers : answers[n][1] # answers[1][1]

\* C7 as stated: compareAnswers with scalar answers of different native kinds,
\* the first an integer, boolean or text, raises a type-mismatch error and
\* does not return false.
C7_RaisesOnDifferentKinds ==
    (call.op = "compareAnswers" /\ ScalarsOfDifferentKinds(call.answers))
        => ret.st = "TypeError"

\* C7 as amended: such a call raises nothing; it returns false when some
\* other answer is not an instance of the first answer's type, and otherwise
\* (booleans after an integer) whether every answer equals the first by value.
C7_FalseOnDifferentKinds ==
    (call.op = "compareAnswers" /\ ScalarsOfDifferentKinds(call.answers)) =>
        LET answers == call.answers
        IN  /\ ret.st = "ok"
            /\ (\E n \in DOMAIN answers : ~IsInstance(answers[n], {answers[1][1]}))
                   => ret.val = FALSE
            /\ (\A n \in DOMAIN answers : IsInstance(answers[n], {answers[1][1]}))
                   => (ret.val <=> \A n \in DOMAIN answers : IntOf(answers[n]) = IntOf(answers[1]))

\* compareAnswers(1, "1") has returned false
C7_Witness ==
    /\ call.op = "compareAnswers"
    /\ call.answers = <<I(1), PyStr(<<49>>)>>
    /\ ret = Gives(FALSE)

\* the i-th elements of all answers
Column(answers, i) == [n \in DOMAIN answers |-> answers[n][2][i]]

\* C8: fewer than two answers raise ValueError; with a list or tuple first,
\* the result is false, without an error, when some other answer is not a
\* list or tuple or differs in length, and otherwise true exactly when the
\* comparison of the i-th elements returns true for every index i; equal
\* lists of integers, and empty sequences, compare true.
C8_SequenceComparison ==
    call.op = "compareAnswers" =>
        LET answers == call.answers
        IN  /\ Len(answers) < 2 => ret.st = "ValueError"
            /\ (Len(answers) >= 2 /\ IsSequence(answers[1])) =>
                   IF \E n \in DOMAIN answers :
                          \/ ~IsSequence(answers[n])
                          \/ Len(answers[n][2]) # Len(answers[1][2])
                   THEN ret = Gives(FALSE)
                   ELSE /\ ret = Gives(TRUE) <=>
                               \A i \in DOMAIN answers[1][2] :
                                   compareAnswers(Column(answers, i), DefaultFloatPrecision)
                                       = Gives(TRUE)
                        /\ (\A n \in DOMAIN answers :
                                /\ answers[n] = answers[1]
                                /\ \A i \in DOMAIN answers[1][2] : answers[1][2][i][1] = "int")
                               => ret = Gives(TRUE)
                        /\ answers[1][2] = <<>> => ret = Gives(TRUE)

\* compareAnswers([1], [1, 2]) has returned false
C8_Witness ==
    /\ call.op = "compareAnswers"
    /\ call.answers = <<ListOf(1), ListOf(2)>>
    /\ ret = Gives(FALSE)

----------------------------------------------------------------------------
(* Claims about checkPrecision, checked under SpecCalls *)

\* an error exactly when precision <= 0; otherwise |a-b| <= precision when
\* |a| <= 1e-10, and |a-b| <= precision or |(a-b)/a| <= precision when not
PrecisionRule ==
    LET a == call.a
        b == call.b
        precision == call.precision
        absolute == FLe(FAbs(FSub(a, b)), precision)
        relative == FAbsQuotientLe(FSub(a, b), a, precision)
    IN  /\ ret.st # "ok" <=> FLe(precision, DecZero)
        /\ ret.st = "ok" =>
               ret.val = IF FLe(FAbs(a), Dec(1, -10)) THEN absolute ELSE absolute \/ relative

\* C9 as stated: the rule above, and checkPrecision(a, a, p) is true for every
\* a and every p > 0.
C9_ReflexiveForEveryA ==
    call.op = "checkPrecision" =>
        /\ PrecisionRule
        /\ (call.a = call.b /\ ~FLe(call.precision, DecZero)) => ret = Gives(TRUE)

\* C9 as amended: the rule above, and checkPrecision(a, a, p) is true for every
\* finite a and every p > 0.
C9_ReflexiveForFiniteA ==
    call.op = "checkPrecision" =>
        /\ PrecisionRule
        /\ (call.a = call.b /\ call.a.fin /\ ~FLe(call.precision, DecZero)) => ret = Gives(TRUE)

\* checkPrecision(100.05, 100.05, 5e-7) has returned true
C9_Witness ==
    /\ call.op = "checkPrecision"
    /\ call.a = Dec(10005, -2)
    /\ call.b = Dec(10005, -2)
    /\ call.precision = Dec(5, -7)
    /\ ret = Gives(TRUE)

----------------------------------------------------------------------------
(* Claims about checkDataCompatibility, checked under SpecCalls *)

\* the values at the leaves of nested lists and tuples
RECURSIVE LeavesOf(_)
LeavesOf(data) ==
    IF IsSequence(data) THEN UNION {LeavesOf(data[2][n]) : n \in DOMAIN data[2]}
    ELSE {data}

\* targetType names a registered type, or is a type object whose type string
\* names one
Resolves(targetType) ==
    \/ targetType[1] = "name" /\ IsRegistered(targetType[2])
    \/ /\ targetType[1] = "type"
       /\ HasDefaultTypeString(targetType[2])
       /\ IsRegistered(DefaultTypeString(targetType[2]))

ResolvedName(targetType) ==
    IF targetType[1] = "type" THEN DefaultTypeString(targetType[2]) ELSE targetType[2]

\* C10 as stated: for every value, empty and nested lists included,
\* checkDataCompatibility raises an unknown-type error when targetType does
\* not resolve to a registered name; otherwise a type-mismatch error when some
\* leaf's native kind is not accepted; otherwise it returns whether every leaf
\* satisfies the type's constraint.
C10_ErrorsForEveryValue ==
    call.op = "checkDataCompatibility" =>
        LET data == call.data
            targetType == call.targetType
        IN  IF ~Resolves(targetType) THEN ret.st \in {"ValueError", "KeyError", "TypeError"}
            ELSE IF \E x \in LeavesOf(data) : ~IsInstance(x, PyTypes(ResolvedName(targetType)))
            THEN ret.st = "TypeError"
            ELSE ret = Gives(\A x \in LeavesOf(data) : Constraint(ResolvedName(targetType), x))

\* the integer x lies in -2^(w-1) .. 2^(w-1) - 1, for w = 32 or 64: read off
\* the anchor (0, +-2^31, +-2^63) and the sign of the offset
WithinSigned(x, w) ==
    LET top == IF w = 32 THEN 1 ELSE 2
    IN  \/ -top < x.a /\ x.a < top
        \/ x.a = -top /\ x.o >= 0
        \/ x.a = top /\ x.o < 0

\* C11: for every integer x, checkDataCompatibility(x, "int") is true exactly
\* when -2^31 <= x <= 2^31 - 1 and checkDataCompatibility(x, "long long")
\* exactly when -2^63 <= x <= 2^63 - 1 (so 2^31 is not an "int" but is a
\* "long long"); "integer" answers as "int", "long" and "long long int" as
\* "long long".
C11_IntegerRanges ==
    (/\ call.op = "checkDataCompatibility"
     /\ call.data[1] \in {"int", "bool"}
     /\ call.targetType[1] = "name") =>
        LET x == IntOf(call.data)
            name == call.targetType[2]
        IN  /\ name \in {"int", "integer"} => ret = Gives(WithinSigned(x, 32))
            /\ name \in {"long long", "long", "long long int"} => ret = Gives(WithinSigned(x, 64))
            /\ name \in {"integer", "long", "long long int"} =>
                   ret = checkDataCompatibility(call.data, TypeName(Canonical(name)))

\* checkDataCompatibility(2^31, "long") has returned true, where "int" gives false
C11_Witness ==
    /\ call.op = "checkDataCompatibility"
    /\ call.data = PyInt(1, 0)
    /\ call.targetType = TypeName("long")
    /\ ret = Gives(TRUE)
    /\ checkDataCompatibility(PyInt(1, 0), TypeName("int")) = Gives(FALSE)

----------------------------------------------------------------------------
(* Claims about checkDataType, checked under SpecCalls *)

\* the values found n levels down from data, going through lists and tuples
RECURSIVE ValuesAt(_, _)
ValuesAt(data, n) ==
    IF n = 0 THEN {data}
    ELSE UNION {Range(x[2]) : x \in {y \in ValuesAt(data, n - 1) : IsSequence(y)}}

\* data is a d-deep nesting of lists and tuples whose leaves are of one of
\* the kinds: sequences at every depth below d, accepted values at depth d
NestedOf(data, kinds, d) ==
    /\ \A n \in 0..(d - 1) : \A x \in ValuesAt(data, n) : IsSequence(x)
    /\ \A x \in ValuesAt(data, d) : IsInstance(x, kinds)

\* C12: for a registered type name t (canonical or alias) and a dimension d,
\* checkDataType(value, t, d) never raises; it returns true when value is a
\* d-deep nesting of lists and tuples with leaves of a kind t accepts, and
\* false otherwise: when some value above depth d is not a list or tuple, or
\* some leaf at depth d is not of an accepted kind.
C12_TypeAndDimension ==
    call.op = "checkDataType" =>
        /\ IsRegistered(call.variableType)
        /\ ret = Gives(NestedOf(call.data, PyTypes(call.variableType), call.dimension))

\* checkDataType([[1]], "integer", 2) has returned true
C12_Witness ==
    /\ call.op = "checkDataType"
    /\ call.data = PyList(<<PyList(<<I(1)>>)>>)
    /\ call.variableType = "integer"
    /\ call.dimension = 2
    /\ ret = Gives(TRUE)

----------------------------------------------------------------------------
(* Claims about the tolerance of compareAnswers, checked under SpecCalls *)

\* a real, or a list or tuple of such
RECURSIVE RealNesting(_)
RealNesting(x) ==
    IF IsSequence(x) THEN \A i \in DOMAIN x[2] : RealNesting(x[2][i])
    ELSE x[1] = "float"

\* x and y nest lists and tuples in the same way
RECURSIVE SameShape(_, _)
SameShape(x, y) ==
    IF IsSequence(x)
    THEN /\ IsSequence(y)
         /\ Len(x[2]) = Len(y[2])
         /\ \A i \in DOMAIN x[2] : SameShape(x[2][i], y[2][i])
    ELSE ~IsSequence(y)

\* checkPrecision(leaf of x, corresponding leaf of y, precision) at every leaf
RECURSIVE LeavesWithin(_, _, _)
LeavesWithin(x, y, precision) ==
    IF IsSequence(x) THEN \A i \in DOMAIN x[2] : LeavesWithin(x[2][i], y[2][i], precision)
    ELSE checkPrecision(x[2], y[2], precision) = Gives(TRUE)

\* C13 as stated: the floatPrecision given to compareAnswers is the tolerance
\* of every comparison of reals at every depth: for answers that are equally
\* shaped nestings of reals the result is the conjunction, over the other
\* answers and all leaves, of checkPrecision(first's leaf, other's leaf,
\* floatPrecision).
C13_PrecisionAtEveryDepth ==
    (/\ call.op = "compareAnswers"
     /\ Len(call.answers) >= 2
     /\ ~FLe(call.floatPrecision, DecZero)
     /\ \A n \in DOMAIN call.answers :
            RealNesting(call.answers[n]) /\ SameShape(call.answers[1], call.answers[n]))
        => ret = Gives(\A n \in 2..Len(call.answers) :
                           LeavesWithin(call.answers[1], call.answers[n], call.floatPrecision))

----------------------------------------------------------------------------
(* Claims about byte blocks and truncated streams, checked under SpecCodec *)

\* C14 as stated: for every bytes or bytearray B, the empty one included, the
\* encoder writes a head of B's own type with len = |B| and then each byte
\* as a bare int, and the decoder started on that head raises nothing and
\* returns a container of the same kind and contents as B.
C14_ByteBlocksRoundTrip ==
    \A j \in DOMAIN sent :
        (~sent[j].raw /\ sent[j].data[1] \in {"bytes", "bytearray"}) =>
            LET B == sent[j].data
                items == SubSeq(stream, sent[j].from + 1, sent[j].to)
            IN  /\ sent[j].ok
                /\ Len(items) = 1 + Len(B[2])
                /\ items[1][1] = "frame"
                /\ items[1][2].type = PyType(B[1])
                /\ items[1][2].len = I(Len(B[2]))
                /\ \A n \in DOMAIN B[2] : items[n + 1] = I(B[2][n])
                /\ \A i \in DOMAIN recv :
                       (/\ recv[i].from = sent[j].from
                        /\ (recv[i].checkEnd => sent[j].to = Len(stream)))
                       => recv[i].st = "ok" /\ recv[i].val = B

\* where the value that starts after position p ends, going by the lens the
\* heads declare: Len(s) + 1 when s ends before that
RECURSIVE EndOfValue(_, _), EndOfValues(_, _, _)
EndOfValues(s, p, n) ==
    IF n = 0 \/ p > Len(s) THEN p ELSE EndOfValues(s, EndOfValue(s, p), n - 1)

EndOfValue(s, p) ==
    IF p >= Len(s) THEN Len(s) + 1
    ELSE LET head == s[p + 1]
         IN  IF head[1] # "frame" THEN p + 1
             ELSE IF head[2].type[1] # "type" \/ ~IsInstance(head[2].len, {"int"}) THEN p + 1
             ELSE IF ~IntLe([a |-> 0, o |-> 0], IntOf(head[2].len)) THEN p + 1
             ELSE LET n == RangeLen(head[2].len)
                  IN  IF head[2].type[2] = "dict" THEN EndOfValues(s, p + 1, 2 * n)
                      ELSE IF head[2].type[2] \in {"list", "tuple", "set", "frozenset"}
                      THEN EndOfValues(s, p + 1, n)
                      ELSE IF head[2].type[2] \in {"str", "bytes", "bytearray"}
                      THEN (IF p + 1 + n > Len(s) THEN Len(s) + 1 ELSE p + 1 + n)
                      ELSE p + 1

\* the stream ends before the value that starts after position p is complete
Truncated(s, p) == EndOfValue(s, p) > Len(s)

\* C15: a call on a stream that ends before the head, or before all the
\* children that some head it has read declares, ends with an error and
\* returns no value, with checkEnd false and true; a call that returns has
\* read no further than the end of the value.
C15_TruncatedRejected ==
    \A i \in DOMAIN recv :
        /\ Truncated(stream, recv[i].from) => (recv[i].st # "ok" /\ recv[i].val = PyNone)
        /\ recv[i].st = "ok" => recv[i].to = EndOfValue(stream, recv[i].from)

\* the stream is a list head declaring one child and, as that child, a str
\* head declaring one character that never comes: the call (with checkEnd)
\* has raised
C15_Witness ==
    /\ Len(stream) = 2
    /\ stream[1] = Frame(PyType("list"), I(1), PyNone)
    /\ stream[2] = Frame(PyType("str"), I(1), PyNone)
    /\ Len(recv) = 1
    /\ recv[1].from = 0
    /\ recv[1].checkEnd
    /\ recv[1].st = "RuntimeError"

====
